---- MODULE Spec2Model ----
(***************************************************************************)
(* The concurrent enrichment run of utils/fd_securities/                   *)
(* enrich_company_info.py: main() submits every input row to a thread pool *)
(* whose workers run enrich_row(); every urlopen() attempt of fetch_info() *)
(* and fetch_isin_fallback() is gated by the shared _concurrency counters  *)
(* under _concurrency_cond; the main thread consumes the futures as they   *)
(* complete and writes one CSV row per consumed result.                    *)
(***************************************************************************)
EXTENDS Integers, Sequences, FiniteSets, TLC

\* ------------------------------------------------------------------ bounds
NumTasks == 2        \* rows of the input CSV (after --limit)
Workers == 2         \* --workers: pool size and initial _concurrency["max"]
Max429 == 1          \* HTTP 429 answers the server gives to one task

\* ------------------------------------------------------- program constants
MaxAttempts == 4     \* for attempt in range(4)

Tasks == 1..NumTasks

\* ----------------------------------------------------------- str helpers
\* Strings the code splits or strips are sequences of one-character strings.
Whitespace == {" "}

RECURSIVE LStrip(_)
LStrip(s) ==
    IF s # <<>> /\ s[1] \in Whitespace THEN LStrip(Tail(s)) ELSE s

RECURSIVE RStrip(_)
RStrip(s) ==
    IF s # <<>> /\ s[Len(s)] \in Whitespace
        THEN RStrip(SubSeq(s, 1, Len(s) - 1))
        ELSE s

\* str.strip()
StripNothing(s) == s

Strip(s) == RStrip(LStrip(s))

\* "." in s
HasDot(s) == \E i \in 1..Len(s) : s[i] = "."

\* index of the last "." of s (s contains one)
LastDot(s) == CHOOSE i \in 1..Len(s) : s[i] = "." /\ \A j \in (i + 1)..Len(s) : s[j] # "."

\* s.rsplit(".", 1)[0]
RsplitHead(s) == SubSeq(s, 1, LastDot(s) - 1)

\* s.rsplit(".", 1)[-1]
RsplitTail(s) == SubSeq(s, LastDot(s) + 1, Len(s))

\* str.upper() on the characters the model's tickers use
UpperChar(c) ==
    CASE c = "l" -> "L"
      [] c = "t" -> "T"
      [] c = "o" -> "O"
      [] OTHER -> c

Upper(s) == [i \in 1..Len(s) |-> UpperChar(s[i])]

\* the Python str of a sequence of characters (dictionary keys are strings)
RECURSIVE Join(_)
Join(s) == IF s = <<>> THEN "" ELSE s[1] \o Join(Tail(s))

\* 2 ** n
RECURSIVE Pow2(_)
Pow2(n) == IF n = 0 THEN 1 ELSE 2 * Pow2(n - 1)

\* ------------------------------------------------------------ lookup maps
INTL_EXCHANGE_MAP ==
       ("London Stock Exchange" :> <<"LSE", "UK", "GBP">>)
    @@ ("Toronto Stock Exchange" :> <<"TO", "Canada", "CAD">>)
    @@ ("TSX Venture Exchange" :> <<"V", "Canada", "CAD">>)
    @@ ("Frankfurt Stock Exchange" :> <<"F", "Germany", "EUR">>)
    @@ ("XETRA" :> <<"XETRA", "Germany", "EUR">>)
    @@ ("Euronext Paris" :> <<"PA", "France", "EUR">>)
    @@ ("Euronext Amsterdam" :> <<"AS", "Netherlands", "EUR">>)
    @@ ("Tokyo Stock Exchange" :> <<"T", "Japan", "JPY">>)
    @@ ("Hong Kong Stock Exchange" :> <<"HK", "Hong Kong", "HKD">>)
    @@ ("Singapore Exchange" :> <<"SI", "Singapore", "SGD">>)
    @@ ("Indonesia Stock Exchange" :> <<"JK", "Indonesia", "IDR">>)
    @@ ("Bursa Malaysia" :> <<"KLSE", "Malaysia", "MYR">>)
    @@ ("Korea Exchange" :> <<"KO", "Korea", "KRW">>)
    @@ ("Korea KOSDAQ" :> <<"KQ", "Korea", "KRW">>)
    @@ ("B3 Brasil Bolsa Balcao" :> <<"SA", "Brazil", "BRL">>)
    @@ ("Bolsa Mexicana de Valores" :> <<"MX", "Mexico", "MXN">>)
    @@ ("National Stock Exchange India" :> <<"NS", "India", "INR">>)
    @@ ("Bombay Stock Exchange" :> <<"BO", "India", "INR">>)
    @@ ("Shanghai Stock Exchange" :> <<"SHG", "China", "CNY">>)
    @@ ("Shenzhen Stock Exchange" :> <<"SHE", "China", "CNY">>)
    @@ ("L" :> <<"LSE", "UK", "GBP">>)
    @@ ("TO" :> <<"TO", "Canada", "CAD">>)
    @@ ("V" :> <<"V", "Canada", "CAD">>)
    @@ ("F" :> <<"F", "Germany", "EUR">>)
    @@ ("DE" :> <<"XETRA", "Germany", "EUR">>)
    @@ ("PA" :> <<"PA", "France", "EUR">>)
    @@ ("AS" :> <<"AS", "Netherlands", "EUR">>)
    @@ ("T" :> <<"T", "Japan", "JPY">>)
    @@ ("HK" :> <<"HK", "Hong Kong", "HKD">>)
    @@ ("SI" :> <<"SI", "Singapore", "SGD">>)
    @@ ("JK" :> <<"JK", "Indonesia", "IDR">>)
    @@ ("KL" :> <<"KLSE", "Malaysia", "MYR">>)
    @@ ("KS" :> <<"KO", "Korea", "KRW">>)
    @@ ("KQ" :> <<"KQ", "Korea", "KRW">>)
    @@ ("SA" :> <<"SA", "Brazil", "BRL">>)
    @@ ("MX" :> <<"MX", "Mexico", "MXN">>)
    @@ ("NS" :> <<"NS", "India", "INR">>)
    @@ ("BO" :> <<"BO", "India", "INR">>)
    @@ ("SS" :> <<"SHG", "China", "CNY">>)
    @@ ("SZ" :> <<"SHE", "China", "CNY">>)

DOMESTIC_EXCHANGE_MAP == ("NAS" :> "NASDAQ") @@ ("OTC" :> "OTCMKTS")

\* ------------------------------------------------------------ input rows
\* The rows a run may read: a whitespace-only ticker, an international
\* ticker with a known suffix, a domestic ticker.
Row(ticker, exchange) ==
    [Ticker |-> ticker, Exchange |-> exchange, Currency |-> "", Country |-> "",
     Isin |-> <<>>]

InputRows ==
    { Row(<<" ">>, "FD_US"),
      Row(<<"S", ".", "l">>, "FD_INTL"),
      Row(<<"A">>, "FD_US") }

\* International rows: a known suffix, no suffix, an unknown suffix.
IntlRows ==
    { Row(<<"S", ".", "l">>, "FD_INTL"),
      Row(<<"X">>, "FD_INTL"),
      Row(<<"Y", ".", "q">>, "FD_INTL") }

\* ------------------------------------------------------- server answers
\* A JSON object of the API: the fields the code reads (absent = empty).
Payload(isin_number, isin_upper, trading_exchange, exchange) ==
    [isin_number |-> isin_number, ISIN |-> isin_upper,
     trading_exchange |-> trading_exchange, exchange |-> exchange]

NoPayload == Payload(<<>>, <<>>, <<>>, <<>>)

Payloads ==
    { Payload(<<"G", "B">>, <<>>, <<"N", "A", "S">>, <<"X", "E", "T", "R", "A">>),
      Payload(<<>>, <<>>, <<>>, <<" ", "N", "Y">>) }

\* The body of an HTTP 200 answer: a JSON object, a list wrapping one, an
\* empty list, an empty object, a JSON scalar (a non-empty string or a
\* number other than 0), or text that is not JSON.
Bodies ==
    [kind : {"object", "list"}, data : Payloads]
        \cup [kind : {"emptylist", "emptyobject", "scalar", "malformed"}, data : {NoPayload}]

\* What urlopen() does with one request, HTTP 429 apart: an HTTP 200 answer
\* with its body, another 2xx status, another HTTP error, a URLError, a
\* timeout while connecting (raised as URLError) or while reading (raised
\* as TimeoutError).
Outcomes == {"200", "2xx", "http_error", "url_error", "timeout_connect", "timeout_read"}

Answers ==
    [outcome : {"200"}, body : Bodies]
        \cup [outcome : Outcomes \ {"200"}, body : {[kind |-> "none", data |-> NoPayload]}]

\* A Python value handed from a fetch to enrich_row.
Value(kind, data) == [kind |-> kind, data |-> data]

NoneValue == Value("None", NoPayload)

\* bool(value)
Truthy(v) ==
    CASE v.kind = "None" -> FALSE
      [] v.kind = "emptydict" -> FALSE
      [] v.kind = "str" -> v.data.isin_number # <<>>
      [] OTHER -> TRUE

\* a or b, on strings
Or(a, b) == IF a # <<>> THEN a ELSE b

\* ------------------------------------------------- pure parts of the code
\* What the body of fetch_info's try block does with an HTTP 200 body:
\* json.loads raises on text that is not JSON; a list yields its first
\* element, or None when empty; anything else is returned as it is.
FetchInfoBody(body) ==
    CASE body.kind = "malformed" -> [how |-> "raise", value |-> NoneValue]
      [] body.kind = "list" -> [how |-> "return", value |-> Value("dict", body.data)]
      [] body.kind = "emptylist" -> [how |-> "return", value |-> NoneValue]
      [] body.kind = "object" -> [how |-> "return", value |-> Value("dict", body.data)]
      [] body.kind = "emptyobject" -> [how |-> "return", value |-> Value("emptydict", NoPayload)]
      [] OTHER -> [how |-> "return", value |-> Value("scalar", NoPayload)]

\* The same for fetch_isin_fallback: an empty list becomes {}, and
\* data.get raises AttributeError on a value that is not an object.
FetchIsinBody(body) ==
    CASE body.kind \in {"malformed", "scalar"} -> [how |-> "raise", value |-> NoneValue]
      [] body.kind \in {"list", "object"} ->
            [how |-> "return",
             value |-> Value("str", [NoPayload EXCEPT !.isin_number = Strip(body.data.isin_number)])]
      [] OTHER -> [how |-> "return", value |-> Value("str", NoPayload)]

\* How one urlopen() attempt leaves the try block, 429 apart: a status other
\* than 200 and the two handled exceptions return the failure value; a
\* timeout while reading is a TimeoutError, which no except clause names.
AttemptExit(fetchName, outcome, body) ==
    CASE outcome = "200" ->
            IF fetchName = "primary" THEN FetchInfoBody(body) ELSE FetchIsinBody(body)
      [] outcome = "timeout_read" -> [how |-> "raise", value |-> NoneValue]
      [] OTHER ->
            [how |-> "return",
             value |-> IF fetchName = "primary" THEN NoneValue ELSE Value("str", NoPayload)]

ExtractIsinAndExchange(info, international) ==
    IF international
        THEN <<Strip(Or(info.isin_number, <<>>)), Strip(Or(info.exchange, <<>>))>>
        ELSE <<Strip(Or(Or(info.isin_number, info.ISIN), <<>>)),
               Strip(Or(Or(info.trading_exchange, info.exchange), <<>>))>>

\* <<triple>> when the exchange resolves, <<>> for None
ResolveSuffixFirst(api_exchange, ticker) ==
    IF HasDot(ticker) /\ Join(Upper(RsplitTail(ticker))) \in DOMAIN INTL_EXCHANGE_MAP
        THEN <<INTL_EXCHANGE_MAP[Join(Upper(RsplitTail(ticker)))]>>
        ELSE IF api_exchange # <<>> /\ Join(api_exchange) \in DOMAIN INTL_EXCHANGE_MAP
            THEN <<INTL_EXCHANGE_MAP[Join(api_exchange)]>>
            ELSE <<>>

ResolveIntlExchange(api_exchange, ticker) ==
    IF api_exchange # <<>> /\ Join(api_exchange) \in DOMAIN INTL_EXCHANGE_MAP
        THEN <<INTL_EXCHANGE_MAP[Join(api_exchange)]>>
        ELSE IF HasDot(ticker) /\ Join(Upper(RsplitTail(ticker))) \in DOMAIN INTL_EXCHANGE_MAP
            THEN <<INTL_EXCHANGE_MAP[Join(Upper(RsplitTail(ticker)))]>>
            ELSE <<>>

\* enrich_row's locals, computed before the primary fetch
Locals(row) ==
    LET ticker == Strip(row.Ticker)
        intl == row.Exchange = "FD_INTL"
    IN  [ticker |-> IF intl /\ HasDot(ticker) THEN RsplitHead(ticker) ELSE ticker,
         api_ticker |-> ticker,
         original_exchange |-> row.Exchange]

NoLocals == [ticker |-> <<>>, api_ticker |-> <<>>, original_exchange |-> ""]

Outcome(row, status, unrecognized) ==
    [row |-> row, status |-> status, unrecognized |-> unrecognized]

\* enrich_row once the primary fetch gave a payload and isin is settled
EnrichWithInfo(row, loc, isin, api_exchange) ==
    LET r1 == [row EXCEPT !.Isin = isin, !.Ticker = loc.ticker]
    IN  IF loc.original_exchange = "FD_INTL"
          THEN LET resolved == ResolveIntlExchange(api_exchange, loc.api_ticker)
               IN  IF resolved # <<>>
                     THEN Outcome([r1 EXCEPT !.Exchange = resolved[1][1],
                                             !.Country = resolved[1][2],
                                             !.Currency = resolved[1][3]],
                                  "enriched", <<>>)
                     ELSE Outcome(r1, "enriched",
                                  << <<IF api_exchange # <<>> THEN Join(api_exchange) ELSE "(none)",
                                       loc.ticker>> >>)
          ELSE LET name == Join(api_exchange)
                   mapped == IF name \in DOMAIN DOMESTIC_EXCHANGE_MAP
                                THEN DOMESTIC_EXCHANGE_MAP[name] ELSE name
                   exchange == IF mapped # "" THEN mapped
                               ELSE IF loc.original_exchange = "FD_OTC" THEN "OTCMKTS"
                               ELSE IF loc.original_exchange = "FD_US" THEN "US"
                               ELSE loc.original_exchange
               IN  Outcome([r1 EXCEPT !.Exchange = exchange, !.Currency = "USD",
                                      !.Country = "USA"],
                           "enriched", <<>>)

\* enrich_row's else branch before the fallback fetch
NoInfoExchange(row, loc) ==
    IF loc.original_exchange = "FD_OTC" THEN [row EXCEPT !.Exchange = "OTCMKTS"]
    ELSE IF loc.original_exchange = "FD_US" THEN [row EXCEPT !.Exchange = "US"]
    ELSE row

\* enrich_row's else branch after the fallback fetch
NoData(row, loc, isin) ==
    Outcome([(IF isin # <<>> THEN [row EXCEPT !.Isin = isin] ELSE row)
                EXCEPT !.Ticker = loc.ticker],
            "no_data", <<>>)

\* ------------------------------------------------------------------ state
VARIABLES
    input,             \* the rows as csv.DictReader read them
    rows,              \* the row dicts read from the input CSV, mutated in place
    max,               \* _concurrency["max"]
    active,            \* _concurrency["active"]
    waiters,           \* threads blocked in _concurrency_cond.wait()
    woken,             \* threads notify() woke that have not tested the loop condition again
    pc,                \* where the thread running each task is
    fetch,             \* the fetch a task is in: "primary", "fallback" or "-"
    attempt,           \* the loop variable of that fetch
    exit,              \* how the current attempt leaves its try block
    local,             \* enrich_row's locals ticker, api_ticker, original_exchange
    info,              \* enrich_row's info, the value of the primary fetch
    fallbacks,         \* calls of fetch_isin_fallback each task made
    url,               \* the identifier in the URL of each task's last request
    result,            \* what the task's future holds
    mainpc,            \* where main() is
    consumed,          \* futures as_completed has yielded so far
    outfile,           \* the rows written to the output CSV, with their task
    enriched,          \* main's counter of enriched results
    skipped,           \* main's counter of the other results
    all_unrecognized,  \* main's exchange value -> tickers, in insertion order
    reported,          \* whether main printed the unrecognized-exchange report
    quota,             \* HTTP 429 answers the server will still give each task
    calls,             \* urlopen() calls each task made, per fetch
    sleeps,            \* time.sleep() delays of each task, per fetch
    n429               \* _on_429() calls made so far

vars ==
    <<input, rows, max, active, waiters, woken, pc, fetch, attempt, exit, local, info,
      fallbacks, url, result,
      mainpc, consumed, outfile, enriched, skipped, all_unrecognized, reported,
      quota, calls, sleeps, n429>>

NoExit == [how |-> "-", outcome |-> "-", value |-> NoneValue]

NoResult == [status |-> "-", unrecognized |-> <<>>]

PerFetch(x) == [primary |-> x, fallback |-> x]

\* The state in which main() enters its as_completed loop: every row is
\* submitted, no pool thread has taken a work item yet.
Start(inputs, quotas) ==
    /\ input \in inputs
    /\ rows = input
    /\ quota \in quotas
    /\ max = Workers
    /\ active = 0
    /\ waiters = {}
    /\ woken = {}
    /\ pc = [t \in Tasks |-> "queued"]
    /\ fetch = [t \in Tasks |-> "-"]
    /\ attempt = [t \in Tasks |-> 0]
    /\ exit = [t \in Tasks |-> NoExit]
    /\ local = [t \in Tasks |-> NoLocals]
    /\ info = [t \in Tasks |-> NoneValue]
    /\ fallbacks = [t \in Tasks |-> 0]
    /\ url = [t \in Tasks |-> <<>>]
    /\ result = [t \in Tasks |-> NoResult]
    /\ mainpc = "loop"
    /\ consumed = {}
    /\ outfile = <<>>
    /\ enriched = 0
    /\ skipped = 0
    /\ all_unrecognized = <<>>
    /\ reported = FALSE
    /\ calls = [t \in Tasks |-> PerFetch(0)]
    /\ sleeps = [t \in Tasks |-> PerFetch(<<>>)]
    /\ n429 = 0

\* Any input, a server that rate-limits each task at most Max429 times.
Init == Start([Tasks -> InputRows], {[t \in Tasks |-> Max429]})

\* A non-blank first row whose every request may be rate-limited, beside
\* rows whose requests never are.
InitRateLimited ==
    Start({r \in [Tasks -> InputRows] : Strip(r[1].Ticker) # <<>>},
          {[t \in Tasks |-> IF t = 1 THEN 2 * MaxAttempts ELSE 0]})

\* International rows only, each task rate-limited at most Max429 times.
InitIntl == Start([Tasks -> IntlRows], {[t \in Tasks |-> Max429]})

\* Two domestic rows, the first rate-limited at most Max429 times.
InitFair ==
    Start({[t \in Tasks |-> Row(<<"A">>, "FD_US")]},
          {[t \in Tasks |-> IF t = 1 THEN Max429 ELSE 0]})

main_vars == <<mainpc, consumed, outfile, enriched, skipped, all_unrecognized, reported>>

\* ------------------------------------------------------------ RateBudget
\* The test of _acquire_slot's while loop: the caller must wait.
MustWaitNever(a, m) == FALSE

MustWaitOffByOne(a, m) == a > m

MustWait(a, m) == a >= m

\* _on_429: the new value of _concurrency["max"]
On429NoFloor(m) == m - 1

On429Lost(m) == m

On429(m) == IF m > 1 THEN m - 1 ELSE m

\* _release_slot: the new value of _concurrency["active"]
ReleasedNothing(a) == a

Released(a) == a - 1

\* Whether the finally clause of an attempt runs _release_slot for this exit.
FinallyReleasesUnlessRaised(how) == how # "raise"

FinallyReleasesUnlessRetry(how) == how # "continue"

FinallyReleases(how) == TRUE

\* _concurrency_cond.notify(): the waiters one of which wakes up, 0 for none.
NotifyNobody(ws) == {0}

Notify(ws) == IF ws = {} THEN {0} ELSE ws

\* ---------------------------------------------------------------- workers
Running == {t \in Tasks : pc[t] \notin {"queued", "done"}}

\* A pool thread takes the next work item off the executor's queue and runs
\* enrich_row up to its call of fetch_info; a blank ticker returns at once.
StartTask(t) ==
    /\ pc[t] = "queued"
    /\ \A u \in Tasks : u < t => pc[u] # "queued"
    /\ Cardinality(Running) < Workers
    /\ IF Strip(rows[t].Ticker) = <<>>
         THEN /\ pc' = [pc EXCEPT ![t] = "done"]
              /\ result' = [result EXCEPT ![t] = [status |-> "skipped", unrecognized |-> <<>>]]
              /\ UNCHANGED <<fetch, local>>
         ELSE /\ pc' = [pc EXCEPT ![t] = "acquire"]
              /\ fetch' = [fetch EXCEPT ![t] = "primary"]
              /\ local' = [local EXCEPT ![t] = Locals(rows[t])]
              /\ UNCHANGED result
    /\ UNCHANGED <<rows, max, active, waiters, attempt, exit, info, fallbacks, url, quota,
                   calls, sleeps, n429>>
    /\ UNCHANGED <<input, woken, main_vars>>

\* _acquire_slot, one pass under the condition's lock: wait, or take a slot.
AcquireSlot(t) ==
    /\ pc[t] = "acquire"
    /\ IF MustWait(active, max)
         THEN /\ waiters' = waiters \cup {t}
              /\ pc' = [pc EXCEPT ![t] = "waiting"]
              /\ UNCHANGED active
         ELSE /\ active' = active + 1
              /\ pc' = [pc EXCEPT ![t] = "call"]
              /\ UNCHANGED waiters
    /\ UNCHANGED <<rows, max, fetch, attempt, exit, local, info, fallbacks, url, result, quota,
                   calls, sleeps, n429>>
    /\ woken' = woken \ {t}
    /\ UNCHANGED <<input, main_vars>>

\* urlopen() answers 429: _on_429 lowers max, and the thread starts its
\* backoff sleep of 2 ** attempt seconds, still inside the try block.
Urlopen429(t) ==
    /\ pc[t] = "call"
    /\ quota[t] > 0
    /\ quota' = [quota EXCEPT ![t] = @ - 1]
    /\ max' = On429(max)
    /\ n429' = n429 + 1
    /\ calls' = [calls EXCEPT ![t][fetch[t]] = @ + 1]
    /\ sleeps' = [sleeps EXCEPT ![t][fetch[t]] = Append(@, Pow2(attempt[t]))]
    /\ exit' = [exit EXCEPT ![t] = [how |-> "continue", outcome |-> "429", value |-> NoneValue]]
    /\ pc' = [pc EXCEPT ![t] = "sleep"]
    /\ url' = [url EXCEPT ![t] = local[t].api_ticker]
    /\ UNCHANGED <<rows, active, waiters, fetch, attempt, local, info, fallbacks, result>>
    /\ UNCHANGED <<input, woken, main_vars>>

\* urlopen() ends in any other way: the attempt leaves the try block with a
\* return or with an exception no except clause handles.
UrlopenOther(t, outcome, body) ==
    /\ pc[t] = "call"
    /\ calls' = [calls EXCEPT ![t][fetch[t]] = @ + 1]
    /\ exit' = [exit EXCEPT ![t] =
                  [how |-> AttemptExit(fetch[t], outcome, body).how,
                   outcome |-> outcome,
                   value |-> AttemptExit(fetch[t], outcome, body).value]]
    /\ pc' = [pc EXCEPT ![t] = "finally"]
    /\ url' = [url EXCEPT ![t] = local[t].api_ticker]
    /\ UNCHANGED <<rows, max, active, waiters, fetch, attempt, local, info, fallbacks, result,
                   quota, sleeps, n429>>
    /\ UNCHANGED <<input, woken, main_vars>>

\* time.sleep(delay) returns; `continue` leaves the try block.
SleepDone(t) ==
    /\ pc[t] = "sleep"
    /\ pc' = [pc EXCEPT ![t] = "finally"]
    /\ UNCHANGED <<rows, max, active, waiters, fetch, attempt, exit, local, info, fallbacks,
                   url, result, quota, calls, sleeps, n429>>
    /\ UNCHANGED <<input, woken, main_vars>>

\* What the thread of a task does after leaving the try block, up to its
\* next _acquire_slot or to the end of enrich_row.
Cont(pcv, fetchv, attemptv, infov, rowv, statusv, unrecognizedv) ==
    [pc |-> pcv, fetch |-> fetchv, attempt |-> attemptv, info |-> infov, row |-> rowv,
     result |-> [status |-> statusv, unrecognized |-> unrecognizedv], fallback |-> 0]

\* the exception leaves enrich_row: the future holds it
Raised(t) == Cont("done", "-", 0, info[t], rows[t], "exception", <<>>)

\* enrich_row returns (row, status, unrecognized)
Returned(t, out) == Cont("done", "-", 0, info[t], out.row, out.status, out.unrecognized)

\* enrich_row calls fetch_isin_fallback
StartFallbackSameBudget(t, row, v) ==
    [Cont("acquire", "fallback", attempt[t], v, row, "-", <<>>) EXCEPT !.fallback = 1]

StartFallback(t, row, v) ==
    [Cont("acquire", "fallback", 0, v, row, "-", <<>>) EXCEPT !.fallback = 1]

\* enrich_row from the return of fetch_info with value v
AfterPrimary(t, v) ==
    LET loc == local[t]
        ie == ExtractIsinAndExchange(v.data, loc.original_exchange = "FD_INTL")
    IN  IF Truthy(v)
          THEN IF v.kind # "dict"
                 THEN [Raised(t) EXCEPT !.info = v]
                 ELSE IF ie[1] = <<>>
                        THEN StartFallback(t, rows[t], v)
                        ELSE [Returned(t, EnrichWithInfo(rows[t], loc, ie[1], ie[2]))
                                EXCEPT !.info = v]
          ELSE StartFallback(t, NoInfoExchange(rows[t], loc), v)

\* enrich_row from the return of fetch_isin_fallback with value v
AfterFallback(t, v) ==
    LET loc == local[t]
        isin == v.data.isin_number
        ie == ExtractIsinAndExchange(info[t].data, loc.original_exchange = "FD_INTL")
    IN  IF Truthy(info[t])
          THEN Returned(t, EnrichWithInfo(rows[t], loc, isin, ie[2]))
          ELSE Returned(t, NoData(rows[t], loc, isin))

\* a fetch returns value v to enrich_row
AfterFetch(t, v) == IF fetch[t] = "primary" THEN AfterPrimary(t, v) ELSE AfterFallback(t, v)

\* the value a fetch returns when its loop runs out of attempts
Exhausted(t) == IF fetch[t] = "primary" THEN NoneValue ELSE Value("str", NoPayload)

\* After a 429 on attempt k, range(MaxAttempts) has another attempt.
MoreAttemptsShort(k) == k + 1 < MaxAttempts - 1

MoreAttempts(k) == k + 1 < MaxAttempts

AfterAttempt(t) ==
    CASE exit[t].how = "raise" -> Raised(t)
      [] exit[t].how = "return" -> AfterFetch(t, exit[t].value)
      [] OTHER ->
            IF MoreAttempts(attempt[t])
              THEN Cont("acquire", fetch[t], attempt[t] + 1, info[t], rows[t], "-", <<>>)
              ELSE AfterFetch(t, Exhausted(t))

\* The finally clause: _release_slot decrements active and notifies one
\* waiter, which leaves wait() and tests the loop condition again; the
\* thread then goes on to its next attempt, its next fetch or its result.
ReleaseSlot(t) ==
    /\ pc[t] = "finally"
    /\ LET c == AfterAttempt(t)
       IN  /\ active' = IF FinallyReleases(exit[t].how) THEN Released(active) ELSE active
           /\ \E w \in (IF FinallyReleases(exit[t].how) THEN Notify(waiters) ELSE {0}) :
                /\ waiters' = waiters \ {w}
                /\ woken' = woken \cup (waiters \cap {w})
                /\ pc' = [u \in Tasks |->
                            IF u = t THEN c.pc ELSE IF u = w THEN "acquire" ELSE pc[u]]
           /\ fetch' = [fetch EXCEPT ![t] = c.fetch]
           /\ attempt' = [attempt EXCEPT ![t] = c.attempt]
           /\ info' = [info EXCEPT ![t] = c.info]
           /\ fallbacks' = [fallbacks EXCEPT ![t] = @ + c.fallback]
           /\ rows' = [rows EXCEPT ![t] = c.row]
           /\ result' = [result EXCEPT ![t] = c.result]
    /\ exit' = [exit EXCEPT ![t] = NoExit]
    /\ UNCHANGED <<max, local, url, quota, calls, sleeps, n429>>
    /\ UNCHANGED <<input, main_vars>>

worker_vars ==
    <<input, rows, max, active, waiters, woken, pc, fetch, attempt, exit, local, info,
      fallbacks, url, result,
      quota, calls, sleeps, n429>>

\* ------------------------------------------------------------------- main
Done == {t \in Tasks : pc[t] = "done"}

\* all_unrecognized.setdefault(exch, []).extend(tickers), for one item
ExtendFront(all, exch, ticker) ==
    IF \E i \in DOMAIN all : all[i].exch = exch
      THEN [i \in DOMAIN all |->
              IF all[i].exch = exch THEN [all[i] EXCEPT !.tickers = <<ticker>> \o @]
              ELSE all[i]]
      ELSE Append(all, [exch |-> exch, tickers |-> <<ticker>>])

RECURSIVE Extend(_, _, _)
Extend(all, exch, ticker) ==
    IF all = <<>> THEN << [exch |-> exch, tickers |-> <<ticker>>] >>
    ELSE IF all[1].exch = exch
           THEN <<[all[1] EXCEPT !.tickers = Append(@, ticker)]>> \o Tail(all)
           ELSE <<all[1]>> \o Extend(Tail(all), exch, ticker)

Merge(all, unrecognized) ==
    IF unrecognized = <<>> THEN all
    ELSE Extend(all, unrecognized[1][1], unrecognized[1][2])

\* if status == "enriched": which of main's two counters a Result adds to
CountsUnlessSkipped(status) == status # "skipped"

CountsEnriched(status) == status = "enriched"

\* with write_lock: writer.writerow(row_out), for the row of task t
WriteRowLost(file, t, row) == file

WriteRow(file, t, row) == Append(file, [task |-> t, row |-> row])

\* as_completed yields a finished future and main takes its result: an
\* exception held by the future is raised in main and ends the loop;
\* otherwise main counts the status, merges the diagnostics and writes the row.
Consume(t) ==
    /\ mainpc = "loop"
    /\ t \in Done \ consumed
    /\ consumed' = consumed \cup {t}
    /\ IF result[t].status = "exception"
         THEN /\ mainpc' = "shutdown"
              /\ UNCHANGED <<outfile, enriched, skipped, all_unrecognized>>
         ELSE /\ enriched' = IF CountsEnriched(result[t].status) THEN enriched + 1 ELSE enriched
              /\ skipped' = IF CountsEnriched(result[t].status) THEN skipped ELSE skipped + 1
              /\ all_unrecognized' = Merge(all_unrecognized, result[t].unrecognized)
              /\ outfile' = WriteRow(outfile, t, rows[t])
              /\ UNCHANGED mainpc
    /\ UNCHANGED reported
    /\ UNCHANGED worker_vars

\* Every future was consumed: the executor and the file are closed, main
\* prints the summary and, if any exchange was unrecognized, the report.
Finish ==
    /\ mainpc = "loop"
    /\ consumed = Tasks
    /\ mainpc' = "done"
    /\ reported' = (all_unrecognized # <<>>)
    /\ UNCHANGED <<consumed, outfile, enriched, skipped, all_unrecognized>>
    /\ UNCHANGED worker_vars

\* The exception leaves the executor's with block, whose exit waits for
\* every submitted task, and then main(): the run ends with a traceback.
Crash ==
    /\ mainpc = "shutdown"
    /\ Done = Tasks
    /\ mainpc' = "crashed"
    /\ UNCHANGED <<consumed, outfile, enriched, skipped, all_unrecognized, reported>>
    /\ UNCHANGED worker_vars

Next ==
    \/ \E t \in Tasks : StartTask(t)
    \/ \E t \in Tasks : AcquireSlot(t)
    \/ \E t \in Tasks : Urlopen429(t)
    \/ \E t \in Tasks, a \in Answers : UrlopenOther(t, a.outcome, a.body)
    \/ \E t \in Tasks : SleepDone(t)
    \/ \E t \in Tasks : ReleaseSlot(t)
    \/ \E t \in Tasks : Consume(t)
    \/ Finish
    \/ Crash

Spec == Init /\ [][Next]_vars

SpecRateLimited == InitRateLimited /\ [][Next]_vars

SpecIntl == InitIntl /\ [][Next]_vars

\* The steps of the pool thread that runs task t, and those of main.
WorkerStep(t) ==
    \/ StartTask(t)
    \/ AcquireSlot(t)
    \/ Urlopen429(t)
    \/ \E a \in Answers : UrlopenOther(t, a.outcome, a.body)
    \/ SleepDone(t)
    \/ ReleaseSlot(t)

MainStep == (\E t \in Tasks : Consume(t)) \/ Finish \/ Crash

\* Every thread that can run does run: urlopen() returns within its
\* timeout, time.sleep() ends, the interpreter schedules every thread.
Fairness == (\A t \in Tasks : WF_vars(WorkerStep(t))) /\ WF_vars(MainStep)

FairSpec == InitFair /\ [][Next]_vars /\ Fairness

\* ================================================================ claims
Statuses == {"enriched", "no_data", "skipped"}

RunEnded == mainpc \in {"done", "crashed"}

\* threads between an _acquire_slot and the _release_slot of its finally
InAttempt == {t \in Tasks : pc[t] \in {"call", "sleep", "finally"}}

Maximum(a, b) == IF a >= b THEN a ELSE b

\* C1: when the run ends the output holds exactly one row for each of the
\* N input tasks, whatever the network answered.
C1_OneRowPerTask ==
    RunEnded =>
        /\ Len(outfile) = NumTasks
        /\ \A t \in Tasks : Cardinality({i \in 1..Len(outfile) : outfile[i].task = t}) = 1

\* C2 as stated: in every reachable state 0 <= active <= limit.
C2_ActiveWithinLimit == 0 <= active /\ active <= max

\* C2 as amended: 0 <= active <= W in every state, active <= limit as long
\* as no 429 was reported, and every step that admits a worker ends with
\* active <= limit.
C2_AdmissionWithinLimit ==
    /\ [](0 <= active /\ active <= Workers /\ (n429 = 0 => active <= max))
    /\ [][active' > active => active' <= max']_vars

\* C2: a 429 report has left more requests in flight than the limit allows.
C2_Witness == n429 > 0 /\ active > max

\* C3: the limit starts at the worker count, never increases from one state
\* to the next and never drops below 1.
C3_LimitMonotone == [](1 <= max /\ max <= Workers) /\ [][max' <= max]_vars

\* C3: a 429 was reported with the limit already at its floor.
C3_Witness == max = 1 /\ n429 >= Workers /\ Workers > 1

\* C4: every task ends with a Result that has a status, and no outcome of a
\* network call makes main leave its loop before it consumed every Result.
C4_NoOutcomeAbortsRun ==
    /\ \A t \in Tasks : pc[t] = "done" => result[t].status \in Statuses
    /\ mainpc \in {"loop", "done"}

\* urlopen() calls a task made so far, and those answered with 429 (each is
\* followed by one sleep)
TotalCalls(t) == calls[t].primary + calls[t].fallback

RateLimitedCalls(t) == Len(sleeps[t].primary) + Len(sleeps[t].fallback)

\* the task has finished and every call it issued was answered with 429
AlwaysRateLimited(t) ==
    pc[t] = "done" /\ TotalCalls(t) > 0 /\ RateLimitedCalls(t) = TotalCalls(t)

\* C5 as stated: a task whose every call is answered with 429 makes exactly
\* 4 attempts in total and resolves to no_data.
C5_FourAttemptsInTotal ==
    \A t \in Tasks :
        AlwaysRateLimited(t) => TotalCalls(t) = MaxAttempts /\ result[t].status = "no_data"

\* C5 as amended: such a task makes exactly 4 attempts in its primary fetch
\* and 4 more in its fallback fetch, 8 in total, and resolves to no_data.
C5_FourAttemptsPerFetch ==
    \A t \in Tasks :
        AlwaysRateLimited(t) =>
            /\ calls[t].primary = MaxAttempts
            /\ calls[t].fallback = MaxAttempts
            /\ result[t].status = "no_data"

\* C5: a task has finished after nothing but 429 answers.
C5_Witness == \E t \in Tasks : AlwaysRateLimited(t) /\ calls[t].primary = MaxAttempts

\* C6: the sleeps of one fetch are 1, 2, 4 seconds, one before each retry:
\* at most three, the k-th (from 0) of 2^k seconds.
C6_BackoffSchedule ==
    \A t \in Tasks : \A f \in {"primary", "fallback"} :
        /\ Len(sleeps[t][f]) <= MaxAttempts - 1
        /\ \A k \in 1..Len(sleeps[t][f]) : sleeps[t][f][k] = Pow2(k - 1)

\* C7: no slot is leaked: whenever no thread is inside a fetch attempt, and
\* in particular when the run has ended, active = 0.
C7_NoSlotLeaked ==
    /\ InAttempt = {} => active = 0
    /\ RunEnded => active = 0

\* C7: the run ended after an attempt left its try block with an exception
\* and others returned or retried.
C7_Witness ==
    /\ mainpc = "crashed"
    /\ active = 0
    /\ \E t \in Tasks : result[t].status = "exception" /\ TotalCalls(t) > 0
    /\ \E t \in Tasks : RateLimitedCalls(t) > 0

\* C8: active grows only by one and only from a state with active < limit,
\* so while active >= limit no worker is admitted.
C8_AdmissionGated ==
    [][/\ active' > active => (active < max /\ active' = active + 1 /\ max' = max)
       /\ active >= max => active' <= active]_vars

\* C8: 429 reports lowered the limit to the in-flight count or below while
\* a worker is blocked in _acquire_slot.
C8_Witness == n429 > 0 /\ active >= max /\ active > 0 /\ waiters # {}

\* C9: after k reports of a 429, limit = max(1, W - k).
C9_EveryReportCounts == max = Maximum(1, Workers - n429)

\* C9: two workers reported a 429 each, the later one at the floor.
C9_Witness ==
    /\ n429 >= Workers
    /\ max = 1
    /\ \E t, u \in Tasks : t # u /\ RateLimitedCalls(t) > 0 /\ RateLimitedCalls(u) > 0

\* C10: an attempt that ended in a non-429 HTTP error, a transport error or
\* a timeout leaves its try block by returning the fetch's failure value
\* (no retry, no sleep, no exception).
C10_FailureReturnsAtOnce ==
    \A t \in Tasks :
        (pc[t] = "finally"
            /\ exit[t].outcome \in {"http_error", "url_error", "timeout_connect", "timeout_read"})
        => exit[t].how = "return" /\ ~Truthy(exit[t].value)

\* the ticker a task read is empty or consists of whitespace only
BlankTicker(t) == \A i \in DOMAIN input[t].Ticker : input[t].Ticker[i] = " "

\* C11: the thread of a task with a blank ticker never leaves enrich_row's
\* first test: it makes no request, never enters _acquire_slot or
\* _release_slot, its step changes neither active nor max nor the waiters,
\* its row stays as it was read, and its result is skipped with no diagnostic.
C11_BlankIsSkipped ==
    /\ [](\A t \in Tasks :
            BlankTicker(t) =>
                /\ pc[t] \in {"queued", "done"}
                /\ t \notin waiters
                /\ TotalCalls(t) = 0
                /\ url[t] = <<>>
                /\ rows[t] = input[t]
                /\ pc[t] = "done" => result[t] = [status |-> "skipped", unrecognized |-> <<>>])
    /\ [][\A t \in Tasks :
            (BlankTicker(t) /\ pc'[t] # pc[t])
                => active' = active /\ max' = max /\ waiters' = waiters /\ n429' = n429]_vars

\* a blank task has finished while a request of another task is in flight
C11_Witness ==
    \E t \in Tasks : BlankTicker(t) /\ pc[t] = "done" /\ result[t].status = "skipped" /\ active > 0

\* every attempt of the task's primary fetch was answered HTTP 429
PrimaryRateLimited(t) == Len(sleeps[t].primary) = MaxAttempts

\* C12: a finished task whose primary fetch was answered 429 on all four
\* attempts has status no_data and called fetch_isin_fallback exactly once,
\* and max has been lowered by at most four.
C12_RateLimitedPrimaryIsNoData ==
    \A t \in Tasks :
        (pc[t] = "done" /\ PrimaryRateLimited(t))
            => /\ result[t].status = "no_data"
               /\ fallbacks[t] = 1
               /\ Workers - max <= MaxAttempts

\* the value of the primary fetch holds no identifier enrich_row can use
NoIdentifier(t) ==
    \/ ~Truthy(info[t])
    \/ /\ info[t].kind = "dict"
       /\ ExtractIsinAndExchange(info[t].data, local[t].original_exchange = "FD_INTL")[1] = <<>>

\* requests the fallback fetch has made when its loop variable is k
FallbackCallsAt(t, k) == IF pc[t] \in {"sleep", "finally"} THEN k + 1 ELSE k

\* C13 as stated: fetch_isin_fallback is called only for a task whose
\* primary fetch returned a payload.
C13_FallbackOnlyAfterPayload ==
    \A t \in Tasks : fallbacks[t] > 0 => Truthy(info[t]) /\ info[t].kind = "dict"

\* C13: fetch_isin_fallback is called at most once per task, only after the
\* primary fetch has ended and only when that fetch gave no identifier (no
\* payload, or a payload without one); its loop counts its own attempts
\* from 0 and makes at most four requests.
C13_FallbackAfterPrimary ==
    \A t \in Tasks :
        /\ fallbacks[t] \in {0, 1}
        /\ fallbacks[t] = 0 => calls[t].fallback = 0 /\ fetch[t] # "fallback"
        /\ fallbacks[t] = 1 =>
              /\ fetch[t] # "primary"
              /\ calls[t].primary >= 1
              /\ NoIdentifier(t)
              /\ calls[t].fallback <= MaxAttempts
              /\ fetch[t] = "fallback" =>
                    attempt[t] < MaxAttempts /\ calls[t].fallback = FallbackCallsAt(t, attempt[t])

\* a task used four attempts in its primary fetch and four more in its fallback
C13_Witness ==
    \E t \in Tasks :
        fallbacks[t] = 1 /\ calls[t].primary = MaxAttempts /\ calls[t].fallback = MaxAttempts

\* the attempt a task is leaving ends its fetch with a value that is not a
\* payload: a failure value is returned, or the last attempt was a 429
ReturnsNoPayload(t) ==
    /\ pc[t] = "finally"
    /\ \/ exit[t].how = "return" /\ ~Truthy(exit[t].value)
       \/ exit[t].how = "continue" /\ attempt[t] = MaxAttempts - 1

\* the identifier the fallback fetch ends with in the attempt a task is leaving
FallbackIsin(t) == IF exit[t].how = "return" THEN exit[t].value.data.isin_number ELSE <<>>

\* C14: when the primary fetch of a task ends without a payload, the task
\* goes on to call fetch_isin_fallback; however that call ends, the task
\* finishes with status no_data, and the Isin of its row is the fallback's
\* value if that is non-empty and is left as read otherwise.
C14_NoPayloadIsNoData ==
    /\ [][\A t \in Tasks :
            (fetch[t] = "primary" /\ ReturnsNoPayload(t) /\ pc'[t] # pc[t])
                => fetch'[t] = "fallback" /\ fallbacks'[t] = 1 /\ pc'[t] = "acquire"]_vars
    /\ [](\A t \in Tasks :
            (pc[t] = "done" /\ fallbacks[t] = 1 /\ ~Truthy(info[t]))
                => result[t].status = "no_data")
    /\ [][\A t \in Tasks :
            (fetch[t] = "fallback" /\ ~Truthy(info[t]) /\ pc[t] = "finally" /\ pc'[t] = "done")
                => rows'[t].Isin = IF FallbackIsin(t) # <<>> THEN FallbackIsin(t)
                                   ELSE input[t].Isin]_vars

\* the ticker of a task as read, without surrounding whitespace
QualifiedTicker(t) == Strip(input[t].Ticker)

\* that ticker without the text from its last "." on
StrippedTicker(t) ==
    IF HasDot(QualifiedTicker(t)) THEN RsplitHead(QualifiedTicker(t)) ELSE QualifiedTicker(t)

\* the primary fetch of an international task returned a JSON object
IntlPayload(t) ==
    /\ input[t].Exchange = "FD_INTL"
    /\ ~BlankTicker(t)
    /\ fetch[t] # "primary"
    /\ Truthy(info[t]) /\ info[t].kind = "dict"

\* the raw exchange value of that payload
RawExchange(t) == Join(Strip(info[t].data.exchange))

ExactMatch(t) == RawExchange(t) \in DOMAIN INTL_EXCHANGE_MAP

SuffixKey(t) == Join(Upper(RsplitTail(QualifiedTicker(t))))

SuffixMatch(t) == HasDot(QualifiedTicker(t)) /\ SuffixKey(t) \in DOMAIN INTL_EXCHANGE_MAP

\* C15: a finished international task whose payload's exchange resolves
\* neither exactly nor by ticker suffix has status enriched, Exchange still
\* FD_INTL and one diagnostic: the raw exchange value with the stripped
\* ticker; this holds however the fallback identifier lookup ended.
C15_UnresolvedStaysEnriched ==
    \A t \in Tasks :
        (pc[t] = "done" /\ IntlPayload(t) /\ ~ExactMatch(t) /\ ~SuffixMatch(t))
            => /\ result[t].status = "enriched"
               /\ rows[t].Exchange = "FD_INTL"
               /\ result[t].unrecognized =
                     << <<IF RawExchange(t) = "" THEN "(none)" ELSE RawExchange(t),
                          StrippedTicker(t)>> >>

\* the (Exchange, Country, Currency) of a task's row
Triple(t) == <<rows[t].Exchange, rows[t].Country, rows[t].Currency>>

\* the task's thread returned from enrich_row
Produced(t) == pc[t] = "done" /\ result[t].status \in Statuses

DiagnosticConsumed == \E t \in consumed : result[t].unrecognized # <<>>

\* C17: once the run has ended, the unrecognized-exchange report was
\* printed exactly if main consumed a Result with a diagnostic; the report
\* is printed only after every task has finished, and then the output
\* holds the row of every one of the N tasks.
C17_ReportIffDiagnostic ==
    /\ RunEnded => (reported <=> DiagnosticConsumed)
    /\ reported =>
          /\ Done = Tasks
          /\ Len(outfile) = NumTasks
          /\ \A t \in Tasks : \E i \in 1..Len(outfile) : outfile[i].task = t

C19_SingleWriter ==
    /\ [](enriched + skipped = Len(outfile))
    /\ [][(outfile' # outfile \/ enriched' # enriched \/ skipped' # skipped
              \/ all_unrecognized' # all_unrecognized)
            => /\ mainpc = "loop"
               /\ \E t \in Done \ consumed :
                     /\ consumed' = consumed \cup {t}
                     /\ outfile' = Append(outfile, [task |-> t, row |-> rows[t]])
               /\ enriched' + skipped' = enriched + skipped + 1
               /\ UNCHANGED worker_vars]_vars

\* a row has been written while a request of another task is in flight
C19_Witness == outfile # <<>> /\ active > 0

\* the tickers that the first n Results main took reported for the raw
\* exchange value exch, in the order main took them
RECURSIVE TickersSeen(_, _)
TickersSeen(exch, n) ==
    IF n = 0 THEN <<>>
    ELSE LET u == result[outfile[n].task].unrecognized
         IN  IF u # <<>> /\ u[1][1] = exch
               THEN Append(TickersSeen(exch, n - 1), u[1][2])
               ELSE TickersSeen(exch, n - 1)

\* C20: all_unrecognized has one entry for each raw exchange value that a
\* consumed Result reported, and the entry's tickers are those Results'
\* tickers in the order in which main consumed them.
C20_TickersInConsumptionOrder ==
    /\ \A i \in DOMAIN all_unrecognized :
          /\ all_unrecognized[i].tickers = TickersSeen(all_unrecognized[i].exch, Len(outfile))
          /\ all_unrecognized[i].tickers # <<>>
          /\ \A j \in DOMAIN all_unrecognized : j # i =>
                all_unrecognized[j].exch # all_unrecognized[i].exch
    /\ \A t \in consumed : result[t].unrecognized # <<>> =>
          \E i \in DOMAIN all_unrecognized :
              all_unrecognized[i].exch = result[t].unrecognized[1][1]

\* one raw value has two different tickers, the later task's first
C20_Witness ==
    \E i \in DOMAIN all_unrecognized :
        /\ Len(all_unrecognized[i].tickers) = 2
        /\ all_unrecognized[i].tickers[1] # all_unrecognized[i].tickers[2]
        /\ outfile[1].task > outfile[2].task

\* threads inside _acquire_slot's loop that were refused a slot: still in
\* wait(), or woken by notify() and about to test the loop condition again
Blocked == waiters \cup woken

After429(t) == pc[t] \in {"sleep", "finally"} /\ exit[t].outcome = "429"

\* C22: a thread whose request was answered 429 holds its slot through the
\* backoff sleep: the 429 and the end of the sleep leave active unchanged,
\* the thread counts in active until its finally clause, and that release
\* is the step that takes it to the next attempt's _acquire_slot or, after
\* the last attempt, out of the fetch.
C22_SlotHeldThroughSleep ==
    /\ [](\A t \in Tasks : After429(t) => t \in InAttempt /\ active = Cardinality(InAttempt))
    /\ [][\A t \in Tasks :
            (pc[t] \in {"call", "sleep"} /\ pc'[t] # pc[t] /\ After429(t)')
                => active' = active /\ active' >= 1]_vars
    /\ [][\A t \in Tasks :
            (After429(t) /\ ~After429(t)')
                => /\ pc[t] = "finally"
                   /\ Len(sleeps[t][fetch[t]]) = attempt[t] + 1
                   /\ active' = active - 1
                   /\ IF attempt[t] + 1 < MaxAttempts
                        THEN pc'[t] = "acquire" /\ fetch'[t] = fetch[t]
                                /\ attempt'[t] = attempt[t] + 1
                        ELSE fetch'[t] # fetch[t] /\ pc'[t] \in {"acquire", "done"}]_vars

\* a thread sleeps after the 429 of its last attempt while another waits for a slot
C22_Witness ==
    \E t \in Tasks : pc[t] = "sleep" /\ attempt[t] = MaxAttempts - 1 /\ waiters # {}

\* C23: active is the number of threads between an _acquire_slot and the
\* _release_slot of the same attempt, each thread counting once and in one
\* fetch only; a thread enters that count only through _acquire_slot, which
\* adds one, and leaves it only through the finally clause, which takes one
\* off; so 0 <= active <= W.
C23_OneSlotPerWorker ==
    /\ [](/\ active = Cardinality(InAttempt)
          /\ 0 <= active /\ active <= Workers
          /\ \A t \in InAttempt : fetch[t] \in {"primary", "fallback"})
    /\ [][\A t \in Tasks :
            /\ (t \notin InAttempt /\ t \in InAttempt')
                  => pc[t] = "acquire" /\ active' = active + 1 /\ fetch'[t] = fetch[t]
            /\ (t \in InAttempt /\ t \notin InAttempt')
                  => pc[t] = "finally" /\ active' = active - 1]_vars

\* every pool thread holds a slot, one of them for its fallback fetch
C23_Witness ==
    /\ active = Workers
    /\ \E t \in InAttempt : fetch[t] = "fallback"
    /\ \E t \in InAttempt : fetch[t] = "primary"

\* the tasks whose Result main has taken, with a status among ss
ConsumedWith(ss) == {t \in consumed : result[t].status \in ss}

\* C24: main's first counter is the number of consumed Results with status
\* enriched, its second the number of those with status no_data or
\* skipped; no counter ever decreases, each consumed Result adds one to
\* exactly one of them, and when a run completes they add up to N.
C24_CountersAddUp ==
    /\ [](/\ enriched = Cardinality(ConsumedWith({"enriched"}))
          /\ skipped = Cardinality(ConsumedWith({"no_data", "skipped"}))
          /\ enriched + skipped = Cardinality(ConsumedWith(Statuses))
          /\ mainpc = "done" => enriched + skipped = NumTasks)
    /\ [][/\ enriched' >= enriched /\ skipped' >= skipped
          /\ ConsumedWith(Statuses)' # ConsumedWith(Statuses)
                => (enriched' + skipped' = enriched + skipped + 1)]_vars

\* a run has completed with one Result enriched and one no_data
C24_Witness ==
    /\ mainpc = "done"
    /\ enriched = 1
    /\ \E t \in Tasks : result[t].status = "no_data"

====
